---------------------------- MODULE Spec2Model ----------------------------
(***************************************************************************)
(* A model of concrete/ml/sklearn/linear_model.py:                         *)
(*   - LinearRegression.fit, with and without the ReduceSum workaround;    *)
(*   - LogisticRegression.post_processing, decision_function,              *)
(*     predict_proba and predict.                                          *)
(* Arrays live in a heap and are passed by address, as numpy arrays are    *)
(* passed by reference.  Floating-point values are fixed-point integers    *)
(* (One is 1.0) extended with inf and nan.                                 *)
(***************************************************************************)
EXTENDS Integers, Sequences, FiniteSets, TLC

(***************************************************************************)
(* Bounds of the model.                                                    *)
(***************************************************************************)
MaxFeat == 8
MaxTargets == 2
MaxData == 1
MaxOps == 2
NumSamples == 2

None == [none |-> TRUE]

\* The regressor, the heap its arrays live in and the record of its last call.
VARIABLES heap, cfg, sklearn_model, onnx_model, quantized_module, calls, lastOp, nops
\* The classifier's quantized module and the record of its last call.
VARIABLES clf_module, clf_calls, clf_last

fitVars == <<heap, cfg, sklearn_model, onnx_model, quantized_module, calls, lastOp, nops>>
clfVars == <<clf_module, clf_calls, clf_last>>
vars == <<heap, cfg, sklearn_model, onnx_model, quantized_module, calls, lastOp, nops,
          clf_module, clf_calls, clf_last>>

(***************************************************************************)
(* The caller's feature array: address 1 of the heap.                      *)
(***************************************************************************)
CallerX == 1

XShapes == {<<n>> : n \in 0..MaxFeat} \cup {<<NumSamples, n>> : n \in 0..MaxFeat}
YShapes == {<<NumSamples>>} \cup {<<NumSamples, t>> : t \in 0..MaxTargets}

(***************************************************************************)
(* LinearRegression.__init__: the hyperparameters, and no onnx model.      *)
(***************************************************************************)
NBitsSet == {2, 3}

LinearRegressionInit(n_bits, use_sum_workaround, copy_X) ==
    [n_bits |-> n_bits,
     use_sum_workaround |-> use_sum_workaround,
     fit_intercept |-> TRUE,
     normalize |-> "deprecated",
     copy_X |-> copy_X,
     n_jobs |-> None,
     positive |-> FALSE]

(***************************************************************************)
(* Python's a & b on non-negative integers.                                *)
(***************************************************************************)
RECURSIVE BitAnd(_, _)
BitAnd(a, b) ==
    IF a = 0 \/ b = 0 THEN 0
    ELSE (a % 2) * (b % 2) + 2 * BitAnd(a \div 2, b \div 2)

(***************************************************************************)
(* fit, lines 82-83: the feature count and the number of targets read off  *)
(* the shapes.                                                             *)
(***************************************************************************)
InputShape(xshape) == IF Len(xshape) > 1 THEN xshape[2] ELSE xshape[1]
TargetNumber(yshape) == IF Len(yshape) > 1 THEN yshape[2] ELSE 1

(***************************************************************************)
(* fit, line 86: the condition given to assert_true.                       *)
(***************************************************************************)
PreconditionAcceptsZero(input_shape, target_number) ==
    /\ (input_shape = 0 \/ BitAnd(input_shape, input_shape - 1) = 0)
    /\ target_number = 1

PreconditionOk(input_shape, target_number) ==
    /\ input_shape # 0
    /\ BitAnd(input_shape, input_shape - 1) = 0
    /\ target_number = 1

(***************************************************************************)
(* copy.deepcopy(X): a fresh array with the same shape and contents.       *)
(***************************************************************************)
DeepCopyAlias(h, a) == [heap |-> h, addr |-> a]

DeepCopy(h, a) ==
    [heap |-> Append(h, [shape |-> h[a].shape, data |-> h[a].data]),
     addr |-> Len(h) + 1]

(***************************************************************************)
(* params = self.get_params(); params.pop("n_bits"); params.pop(           *)
(* "use_sum_workaround"): what the float trainer is constructed with.      *)
(***************************************************************************)
Pop(params, key) == [k \in (DOMAIN params) \ {key} |-> params[k]]

get_params(self) == self

TrainerParamsKeepFlag(self) == Pop(get_params(self), "n_bits")

TrainerParams(self) == Pop(Pop(get_params(self), "n_bits"), "use_sum_workaround")

(***************************************************************************)
(* n_bits handed to PostTrainingAffineQuantization.                        *)
(***************************************************************************)
QuantizerBits(self) == self.n_bits

(***************************************************************************)
(* The float trainer, sklearn_alg and its fit on X and y.  With copy_X     *)
(* false it may overwrite the array it is given (centering in place); the  *)
(* coefficients are a function of the data it saw.                         *)
(***************************************************************************)
Centered(d) == 0

SklearnFit(h, a, params) ==
    [heap |-> IF params.copy_X THEN h
              ELSE [h EXCEPT ![a].data = Centered(h[a].data)],
     model |-> [params |-> params, coef_ |-> h[a].data + 1]]

(***************************************************************************)
(* _LinearRegressionTorchModel + NumpyModule: the ReduceSum graph of the   *)
(* weights, exported with the first row of X as dummy input.               *)
(***************************************************************************)
ReduceSumGraph(model, a) ==
    [op |-> "ReduceSum", weights |-> model.coef_, dummy_input |-> a]

(***************************************************************************)
(* PostTrainingAffineQuantization(...).quantize_module(X): the quantized   *)
(* module, calibrated on the array at address a, which it may keep by      *)
(* reference.                                                              *)
(***************************************************************************)
QuantizeModule(graph, n_bits, a) ==
    [graph |-> graph, n_bits |-> n_bits, is_signed |-> TRUE, calibration |-> a]

(***************************************************************************)
(* The standard pipeline of the base class (super().fit): float fit,       *)
(* export, calibrate and quantize on the array it is given.                *)
(***************************************************************************)
StandardGraph(model, a) ==
    [op |-> "Gemm", weights |-> model.coef_, dummy_input |-> a]

SuperFit(st, self, a) ==
    LET fitted == SklearnFit(st.heap, a,
                             Pop(Pop(self, "n_bits"), "use_sum_workaround"))
        graph == StandardGraph(fitted.model, a)
    IN [heap |-> fitted.heap,
        sklearn_model |-> fitted.model,
        onnx_model |-> graph,
        quantized_module |-> QuantizeModule(graph, self.n_bits, a),
        calls |-> <<"super.fit">>,
        outcome |-> "ok",
        msg |-> <<>>,
        ret |-> "super.fit"]

(***************************************************************************)
(* What a prediction of the fitted regressor on sample x depends on: the   *)
(* stored weights and whatever the module holds by reference.              *)
(***************************************************************************)
RegPredict(qm, h, x) ==
    <<qm.graph.weights * x, h[qm.calibration].data, h[qm.graph.dummy_input].data>>

(***************************************************************************)
(* LinearRegression.fit, workaround branch (lines 79-131), as a function   *)
(* of the state before the call.                                           *)
(***************************************************************************)
Raise(st, err, cs, msg) ==
    [heap |-> st.heap,
     sklearn_model |-> st.sklearn_model,
     onnx_model |-> st.onnx_model,
     quantized_module |-> st.quantized_module,
     calls |-> cs,
     outcome |-> err,
     msg |-> msg,
     ret |-> "raised"]

WorkaroundFitCheckLate(st, self, a, yshape, valid) ==
    LET input_shape == InputShape(st.heap[a].shape)
        target_number == TargetNumber(yshape)
        copied == DeepCopy(st.heap, a)
        X == copied.addr
        fitted == SklearnFit(copied.heap, X, TrainerParams(self))
        graph == ReduceSumGraph(fitted.model, X)
    IN IF ~valid
       THEN Raise([st EXCEPT !.heap = copied.heap], "ValidationError",
                  <<"deepcopy", "check_X_y">>, <<>>)
       ELSE IF ~PreconditionOk(input_shape, target_number)
       THEN Raise([st EXCEPT !.heap = fitted.heap, !.sklearn_model = fitted.model],
                  "PreconditionError",
                  <<"deepcopy", "check_X_y", "get_params", "sklearn_alg",
                    "sklearn_model.fit", "assert_true">>,
                  <<input_shape, target_number>>)
       ELSE [heap |-> fitted.heap,
             sklearn_model |-> fitted.model,
             onnx_model |-> graph,
             quantized_module |-> QuantizeModule(graph, QuantizerBits(self), X),
             calls |-> <<"deepcopy", "check_X_y", "get_params", "sklearn_alg",
                         "sklearn_model.fit", "assert_true", "TorchModel",
                         "NumpyModule", "PostTrainingAffineQuantization",
                         "quantize_module">>,
             outcome |-> "ok",
             msg |-> <<>>,
             ret |-> "self"]

WorkaroundFit(st, self, a, yshape, valid) ==
    LET input_shape == InputShape(st.heap[a].shape)
        target_number == TargetNumber(yshape)
        copied == DeepCopy(st.heap, a)
        X == copied.addr
        fitted == SklearnFit(copied.heap, X, TrainerParams(self))
        graph == ReduceSumGraph(fitted.model, X)
    IN IF ~PreconditionOk(input_shape, target_number)
       THEN Raise(st, "PreconditionError", <<"assert_true">>,
                  <<input_shape, target_number>>)
       ELSE IF ~valid
       THEN Raise([st EXCEPT !.heap = copied.heap], "ValidationError",
                  <<"assert_true", "deepcopy", "check_X_y">>, <<>>)
       ELSE [heap |-> fitted.heap,
             sklearn_model |-> fitted.model,
             onnx_model |-> graph,
             quantized_module |-> QuantizeModule(graph, QuantizerBits(self), X),
             calls |-> <<"assert_true", "deepcopy", "check_X_y", "get_params",
                         "sklearn_alg", "sklearn_model.fit", "TorchModel",
                         "NumpyModule", "PostTrainingAffineQuantization",
                         "quantize_module">>,
             outcome |-> "ok",
             msg |-> <<>>,
             ret |-> "self"]

(***************************************************************************)
(* LinearRegression.fit (lines 60-131).                                    *)
(***************************************************************************)
FitFallback(st, self, a, yshape, valid) ==
    LET r == WorkaroundFit(st, self, a, yshape, valid)
    IN IF ~self.use_sum_workaround \/ r.outcome = "PreconditionError"
       THEN SuperFit(st, self, a)
       ELSE r

FitResult(st, self, a, yshape, valid) ==
    IF ~self.use_sum_workaround
    THEN SuperFit(st, self, a)
    ELSE WorkaroundFit(st, self, a, yshape, valid)

CurrentState ==
    [heap |-> heap,
     sklearn_model |-> sklearn_model,
     onnx_model |-> onnx_model,
     quantized_module |-> quantized_module]

Fit(yshape, valid) ==
    /\ nops < MaxOps
    /\ LET r == FitResult(CurrentState, cfg, CallerX, yshape, valid)
       IN /\ heap' = r.heap
          /\ sklearn_model' = r.sklearn_model
          /\ onnx_model' = r.onnx_model
          /\ quantized_module' = r.quantized_module
          /\ calls' = r.calls
          /\ lastOp' = [kind |-> "fit",
                        outcome |-> r.outcome,
                        msg |-> r.msg,
                        ret |-> r.ret,
                        input_shape |-> InputShape(heap[CallerX].shape),
                        target_number |-> TargetNumber(yshape),
                        valid |-> valid]
    /\ cfg' = cfg
    /\ nops' = nops + 1
    /\ UNCHANGED clfVars

(***************************************************************************)
(* The caller writes into its own array after (or before) a fit.           *)
(***************************************************************************)
MutateCaller(d) ==
    /\ nops < MaxOps
    /\ d # heap[CallerX].data
    /\ heap' = [heap EXCEPT ![CallerX].data = d]
    /\ calls' = <<>>
    /\ lastOp' = [kind |-> "mutate",
                  outcome |-> "ok",
                  msg |-> <<>>,
                  ret |-> "none",
                  input_shape |-> InputShape(heap[CallerX].shape),
                  target_number |-> 0,
                  valid |-> TRUE]
    /\ nops' = nops + 1
    /\ UNCHANGED <<cfg, sklearn_model, onnx_model, quantized_module>>
    /\ UNCHANGED clfVars

FitInit ==
    /\ \E s \in XShapes, d \in 0..MaxData :
          heap = <<[shape |-> s, data |-> d]>>
    /\ \E b \in NBitsSet, w \in BOOLEAN, c \in BOOLEAN :
          cfg = LinearRegressionInit(b, w, c)
    /\ sklearn_model = None
    /\ onnx_model = None
    /\ quantized_module = None
    /\ calls = <<>>
    /\ lastOp = [kind |-> "init", outcome |-> "ok", msg |-> <<>>, ret |-> "none",
                 input_shape |-> 0, target_number |-> 0, valid |-> TRUE]
    /\ nops = 0

FitNext ==
    \/ \E yshape \in YShapes, valid \in BOOLEAN : Fit(yshape, valid)
    \/ \E d \in 0..MaxData : MutateCaller(d)

(***************************************************************************)
(* Properties of LinearRegression.fit.                                     *)
(***************************************************************************)
IsPowerOfTwo(n) == \E k \in 0..n : n = 2 ^ k

Samples == 0..2

Contains(seq, c) == \E i \in 1..Len(seq) : seq[i] = c

WorkaroundFitDone == lastOp.kind = "fit" /\ cfg.use_sum_workaround

\* C1: with use_sum_workaround enabled, fit fails with the precondition
\* error, naming the feature count and the number of targets, for every
\* feature count that is not a power of two (0 included) and for every target
\* with other than one column; for a power-of-two count >= 1 and a single
\* column the check passes and fit goes on: it copies and validates, and on
\* validated input it trains, quantizes and returns the model.
C1_PreconditionPowerOfTwo ==
    WorkaroundFitDone =>
        LET N == lastOp.input_shape
            T == lastOp.target_number
        IN IF IsPowerOfTwo(N) /\ T = 1
           THEN /\ lastOp.outcome # "PreconditionError"
                /\ Contains(calls, "deepcopy")
                /\ lastOp.valid =>
                      /\ lastOp.outcome = "ok"
                      /\ Contains(calls, "sklearn_model.fit")
                      /\ Contains(calls, "quantize_module")
                      /\ quantized_module # None
           ELSE /\ lastOp.outcome = "PreconditionError"
                /\ lastOp.msg = <<N, T>>

\* Scenario B: three feature columns, workaround on, precondition error
\* mentioning 3.
C1_Witness ==
    /\ WorkaroundFitDone
    /\ lastOp.input_shape = 3
    /\ lastOp.outcome = "PreconditionError"
    /\ lastOp.msg[1] = 3

\* C5: the use_sum_workaround flag is binding.  Without it fit runs the
\* standard pipeline only and returns its result; with it the standard
\* pipeline is never run, whether fit succeeds or fails, and the stored
\* graph is never the standard one.
C5_FlagIsBinding ==
    lastOp.kind = "fit" =>
        IF cfg.use_sum_workaround
        THEN /\ ~Contains(calls, "super.fit")
             /\ lastOp.ret # "super.fit"
             /\ onnx_model # None => onnx_model.op = "ReduceSum"
             /\ lastOp.outcome # "ok" => lastOp.ret = "raised"
        ELSE /\ calls = <<"super.fit">>
             /\ lastOp.ret = "super.fit"
             /\ onnx_model.op = "Gemm"

C5_Witness ==
    /\ WorkaroundFitDone
    /\ lastOp.outcome = "PreconditionError"
    /\ quantized_module = None

\* C6: in the workaround path fit leaves the caller's feature array as it
\* was, and once the model is fitted a write of the caller into that array
\* changes no prediction of the model.
C6_NoInputAliasing ==
    [][/\ (lastOp'.kind = "fit" /\ cfg.use_sum_workaround)
              => heap'[CallerX] = heap[CallerX]
       /\ (lastOp'.kind = "mutate" /\ cfg.use_sum_workaround
               /\ quantized_module # None)
              => \A x \in Samples :
                    RegPredict(quantized_module', heap', x)
                        = RegPredict(quantized_module, heap, x)]_fitVars

C6_Witness ==
    /\ lastOp.kind = "mutate"
    /\ cfg.use_sum_workaround
    /\ ~cfg.copy_X
    /\ quantized_module # None
    /\ heap[CallerX].data # heap[quantized_module.calibration].data

WorkaroundFitOk ==
    (WorkaroundFitDone /\ lastOp.outcome = "ok") =>
        /\ DOMAIN sklearn_model.params
              = {"fit_intercept", "normalize", "copy_X", "n_jobs", "positive"}
        /\ \A k \in DOMAIN sklearn_model.params : sklearn_model.params[k] = cfg[k]
        /\ quantized_module.n_bits = cfg.n_bits

\* C9: in the workaround path the float trainer is constructed with the
\* model's hyperparameters without n_bits and use_sum_workaround, the
\* quantizer runs with the model's n_bits, and fit leaves the model's
\* configuration as it was.
C9_TrainerParams == [][cfg' = cfg /\ WorkaroundFitOk']_fitVars

C9_Witness ==
    /\ WorkaroundFitDone
    /\ lastOp.outcome = "ok"
    /\ cfg.n_bits = 3
    /\ sklearn_model # None

\* C10: in the workaround path a failed precondition is found before
\* anything else is done: no collaborator is called and heap, sklearn_model,
\* _onnx_model_ and quantized_module_ are what they were, so an earlier
\* artifact survives a failed re-fit.
C10_FailedPreconditionChangesNothing ==
    [][(lastOp'.kind = "fit" /\ lastOp'.outcome = "PreconditionError")
          => /\ calls' = <<"assert_true">>
             /\ heap' = heap
             /\ sklearn_model' = sklearn_model
             /\ onnx_model' = onnx_model
             /\ quantized_module' = quantized_module]_fitVars

C10_Witness ==
    /\ lastOp.kind = "fit"
    /\ lastOp.outcome = "PreconditionError"
    /\ quantized_module # None
    /\ onnx_model # None
    /\ sklearn_model # None


(***************************************************************************)
(* Floating-point values.  A finite value is a fixed-point integer (One is *)
(* 1.0); inf carries its sign in v.  The format is narrower than a double: *)
(* a result beyond FloatMax is inf, exp overflows above ExpMax.            *)
(***************************************************************************)
One == 1000
FloatMax == One * One * One
ExpMax == 5 * One
MaxInt == (2 ^ 30 - 1) * 2 + 1

Fin(v) == [k |-> "fin", v |-> v]
Inf(sign) == [k |-> "inf", v |-> sign]
NaN == [k |-> "nan", v |-> 0]

Abs(n) == IF n < 0 THEN -n ELSE n
Sign(n) == IF n < 0 THEN -1 ELSE 1
Sat(n) == IF n > FloatMax THEN Inf(1) ELSE IF n < -FloatMax THEN Inf(-1) ELSE Fin(n)

FNeg(a) == IF a.k = "nan" THEN NaN ELSE [k |-> a.k, v |-> -a.v]

FAdd(a, b) ==
    IF a.k = "nan" \/ b.k = "nan" THEN NaN
    ELSE IF a.k = "inf" /\ b.k = "inf" THEN (IF a.v = b.v THEN a ELSE NaN)
    ELSE IF a.k = "inf" THEN a
    ELSE IF b.k = "inf" THEN b
    ELSE Sat(a.v + b.v)

FSub(a, b) == FAdd(a, FNeg(b))

FMul(a, b) ==
    IF a.k = "nan" \/ b.k = "nan" THEN NaN
    ELSE IF a.v = 0 \/ b.v = 0
    THEN (IF a.k = "inf" \/ b.k = "inf" THEN NaN ELSE Fin(0))
    ELSE IF a.k = "inf" \/ b.k = "inf" THEN Inf(Sign(a.v) * Sign(b.v))
    ELSE IF Abs(a.v) > MaxInt \div Abs(b.v) THEN Inf(Sign(a.v) * Sign(b.v))
    ELSE Sat(Sign(a.v) * Sign(b.v) * ((Abs(a.v) * Abs(b.v)) \div One))

FDiv(a, b) ==
    IF a.k = "nan" \/ b.k = "nan" THEN NaN
    ELSE IF a.k = "inf" THEN (IF b.k = "inf" THEN NaN ELSE Inf(a.v * Sign(b.v)))
    ELSE IF b.k = "inf" THEN Fin(0)
    ELSE IF b.v = 0 THEN (IF a.v = 0 THEN NaN ELSE Inf(Sign(a.v)))
    ELSE IF Abs(a.v) > MaxInt \div One
    THEN Sat(Sign(a.v) * Sign(b.v) * (Abs(a.v) \div Abs(b.v)) * One)
    ELSE Sat(Sign(a.v) * Sign(b.v) * ((Abs(a.v) * One) \div Abs(b.v)))

\* a <= b as IEEE compares: false when either is nan.
FLe(a, b) ==
    /\ a.k # "nan"
    /\ b.k # "nan"
    /\ IF a.k = "inf" THEN (a.v < 0 \/ (b.k = "inf" /\ b.v > 0))
       ELSE IF b.k = "inf" THEN b.v > 0
       ELSE a.v <= b.v

(***************************************************************************)
(* numpy.exp: the power series on [0, ExpMax], the reciprocal below 0.     *)
(***************************************************************************)
RECURSIVE ExpSeries(_, _, _)
ExpSeries(x, n, term) ==
    IF term = 0 THEN 0
    ELSE term + ExpSeries(x, n + 1, (term * x) \div ((n + 1) * One))

FExp(a) ==
    IF a.k = "nan" THEN NaN
    ELSE IF a.k = "inf" THEN (IF a.v > 0 THEN a ELSE Fin(0))
    ELSE IF a.v > ExpMax THEN Inf(1)
    ELSE IF a.v < -ExpMax THEN Fin(0)
    ELSE IF a.v >= 0 THEN Fin(ExpSeries(a.v, 0, One))
    ELSE FDiv(Fin(One), Fin(ExpSeries(-a.v, 0, One)))

(***************************************************************************)
(* numpy.sum along axis 1: the sum of one row of the matrix.               *)
(***************************************************************************)
RECURSIVE FSum(_)
FSum(row) == IF row = <<>> THEN Fin(0) ELSE FAdd(Head(row), FSum(Tail(row)))

(***************************************************************************)
(* The classifier's quantized module: scale and zero point of its output   *)
(* and the number of score columns of its graph.                           *)
(***************************************************************************)
MaxClasses == 3
MaxQ == 2

Scales == {One \div 2, One, 800 * One}
ZeroPoints == {1, 2}

\* The quantized outputs the graph may produce for one sample; none without
\* a module or on samples the validator rejects.
GraphOutputs(module, valid) ==
    IF module = None \/ ~valid THEN {<<>>}
    ELSE {<<[j \in 1..module.n_out |-> Fin(f[j] * One)]>> :
              f \in [1..module.n_out -> 0..MaxQ]}

(***************************************************************************)
(* Dequantization of the module's output, scale * (q - zero_point), as the *)
(* base class's predict and post_processing apply it.                      *)
(***************************************************************************)
DequantizeValue(module, q) ==
    FMul(Fin(module.scale), FSub(q, Fin(module.zero_point * One)))

Dequantize(module, y) ==
    [i \in 1..Len(y) |-> [j \in 1..Len(y[i]) |-> DequantizeValue(module, y[i][j])]]

(***************************************************************************)
(* The base class's predict: no artifact, no prediction; otherwise run the *)
(* quantized module on the samples and dequantize its output.              *)
(***************************************************************************)
Failed(module, err, cs) ==
    [outcome |-> err, calls |-> cs, module |-> module,
     scores |-> <<>>, y |-> <<>>]

Done(module, cs, scores, y) ==
    [outcome |-> "ok", calls |-> cs, module |-> module,
     scores |-> scores, y |-> y]

SuperPredict(module, valid, execute_in_fhe, q) ==
    IF module = None
    THEN Failed(module, "UnfittedModelError", <<"super.predict">>)
    ELSE IF ~valid
    THEN Failed(module, "ValidationError", <<"super.predict", "check_array">>)
    ELSE Done(module,
              <<"super.predict", "check_array",
                IF execute_in_fhe THEN "fhe_forward" ELSE "quantized_forward",
                "dequantize">>,
              <<>>,
              Dequantize(module, q))

(***************************************************************************)
(* The base class's post_processing: dequantize with the fitted module.    *)
(***************************************************************************)
SuperPostProcessing(module, y_preds) ==
    IF module = None
    THEN Failed(module, "UnfittedModelError", <<"super.post_processing">>)
    ELSE Done(module, <<"super.post_processing", "dequantize">>, <<>>,
              Dequantize(module, y_preds))

(***************************************************************************)
(* LogisticRegression.post_processing, lines 309-315: the two branches on  *)
(* y_preds.shape[1], row by row.                                           *)
(***************************************************************************)
BinaryRowSwapped(row) == <<row[1], FSub(Fin(One), row[1])>>

BinaryRow(row) == <<FSub(Fin(One), row[1]), row[1]>>

SoftmaxRow(row) ==
    LET e == [j \in 1..Len(row) |-> FExp(row[j])]
        total == FSum(e)
    IN [j \in 1..Len(row) |-> FDiv(e[j], total)]

Normalize(y_preds) ==
    [i \in 1..Len(y_preds) |->
        IF Len(y_preds[i]) = 1 THEN BinaryRow(y_preds[i]) ELSE SoftmaxRow(y_preds[i])]

(***************************************************************************)
(* LogisticRegression.post_processing (lines 304-315): d is y_preds as it  *)
(* enters line 309, dequantized by the base class unless the caller said   *)
(* it already was.                                                         *)
(***************************************************************************)
NormalizeScores(d) ==
    IF d.outcome # "ok"
    THEN Failed(d.module, d.outcome, <<"post_processing">> \o d.calls)
    ELSE Done(d.module, <<"post_processing">> \o d.calls, d.y, Normalize(d.y))

PostProcessing(module, y_preds, already_dequantized) ==
    NormalizeScores(IF already_dequantized
                    THEN Done(module, <<>>, <<>>, y_preds)
                    ELSE SuperPostProcessing(module, y_preds))

(***************************************************************************)
(* LogisticRegression.decision_function (lines 317-328).                   *)
(***************************************************************************)
Called(name, r) == [r EXCEPT !.calls = name \o r.calls]

DecisionFunctionLazyFit(module, valid, execute_in_fhe, q) ==
    Called(<<"decision_function", "fit">>,
           IF module = None
           THEN SuperPredict([scale |-> One, zero_point |-> 1, n_out |-> 1],
                             valid, execute_in_fhe, <<<<Fin(One)>>>>)
           ELSE SuperPredict(module, valid, execute_in_fhe, q))

DecisionFunction(module, valid, execute_in_fhe, q) ==
    Called(<<"decision_function">>, SuperPredict(module, valid, execute_in_fhe, q))

(***************************************************************************)
(* LogisticRegression.predict_proba (lines 330-344).  PredictProbaFlag is  *)
(* the already_dequantized argument it gives post_processing.              *)
(***************************************************************************)
PredictProbaFlagOmitted == FALSE

PredictProbaFlag == TRUE

\* Lines 343-344, given the result d of decision_function.
PostProcessScores(d) ==
    IF d.outcome # "ok"
    THEN d
    ELSE Called(d.calls, PostProcessing(d.module, d.y, PredictProbaFlag))

PredictProba(module, valid, execute_in_fhe, q) ==
    IF ~valid
    THEN Failed(module, "ValidationError", <<"predict_proba", "check_array">>)
    ELSE Called(<<"predict_proba", "check_array">>,
                PostProcessScores(DecisionFunction(module, valid, execute_in_fhe, q)))

(***************************************************************************)
(* numpy.argmax along axis 1: the first entry no later entry exceeds, nan  *)
(* counting as the largest value; class indices start at 0.                *)
(***************************************************************************)
RECURSIVE ArgMaxLastFrom(_, _, _)
ArgMaxLastFrom(row, i, best) ==
    IF i > Len(row) THEN best - 1
    ELSE IF row[best].k = "nan" THEN best - 1
    ELSE IF ~(row[i].k # "nan" /\ ~FLe(row[best], row[i]))
    THEN ArgMaxLastFrom(row, i + 1, i)
    ELSE ArgMaxLastFrom(row, i + 1, best)

RECURSIVE ArgMaxFrom(_, _, _)
ArgMaxFrom(row, i, best) ==
    IF i > Len(row) THEN best - 1
    ELSE IF row[best].k = "nan" THEN best - 1
    ELSE IF ~FLe(row[i], row[best]) THEN ArgMaxFrom(row, i + 1, i)
    ELSE ArgMaxFrom(row, i + 1, best)

ArgMaxLast(row) == ArgMaxLastFrom(row, 2, 1)

ArgMax(row) == ArgMaxFrom(row, 2, 1)

(***************************************************************************)
(* LogisticRegression.predict (lines 346-350).                             *)
(***************************************************************************)
\* Lines 349-350, given the result p of predict_proba.
ArgMaxRows(p) ==
    [outcome |-> p.outcome,
     calls |-> p.calls,
     module |-> p.module,
     scores |-> p.scores,
     proba |-> p.y,
     y |-> [i \in 1..Len(p.y) |-> ArgMax(p.y[i])]]

Predict(module, valid, execute_in_fhe, q) ==
    IF ~valid
    THEN [outcome |-> "ValidationError", calls |-> <<"predict", "check_array">>,
          module |-> module, scores |-> <<>>, proba |-> <<>>, y |-> <<>>]
    ELSE ArgMaxRows(Called(<<"predict", "check_array">>,
                           PredictProba(module, valid, execute_in_fhe, q)))

(***************************************************************************)
(* The operations of the classifier.  clf_last records the last call: its  *)
(* arguments, how it ended, the dequantized scores it worked on and what   *)
(* it returned.                                                            *)
(***************************************************************************)
Rows1(values, width) == {<<[j \in 1..width |-> f[j]]>> : f \in [1..width -> values]}

ScoreValues == {Fin(v) : v \in {-800 * One, -One, 0, One \div 2, One, 800 * One}}
QuantizedValues == {Fin(n * One) : n \in 0..MaxQ}

\* A call is made when the previous one has returned to the caller.
ClfReady == clf_last.op \in {"init", "fit", "returned"}

\* The base class's fit of the classifier: it stores a quantized module.
ClfFit(scale, zero_point, n_out) ==
    /\ ClfReady
    /\ clf_module' = [scale |-> scale, zero_point |-> zero_point, n_out |-> n_out]
    /\ clf_calls' = <<"fit">>
    /\ clf_last' = [op |-> "fit", outcome |-> "ok", valid |-> TRUE, fhe |-> FALSE,
                    flag |-> FALSE, input |-> <<>>, scores |-> <<>>,
                    proba |-> <<>>, labels |-> <<>>]
    /\ UNCHANGED fitVars

\* The call's effect on the model and the record of it.
Returns(op, valid, execute_in_fhe, flag, input, r, scores, proba, labels) ==
    /\ clf_module' = r.module
    /\ clf_calls' = r.calls
    /\ clf_last' = [op |-> op, outcome |-> r.outcome, valid |-> valid,
                    fhe |-> execute_in_fhe, flag |-> flag, input |-> input,
                    scores |-> scores, proba |-> proba, labels |-> labels]

ReturnsScores(valid, execute_in_fhe, q, r) ==
    Returns("decision_function", valid, execute_in_fhe, FALSE, q, r, r.y, <<>>, <<>>)

ReturnsProba(op, valid, execute_in_fhe, flag, input, r) ==
    Returns(op, valid, execute_in_fhe, flag, input, r, r.scores, r.y, <<>>)

ReturnsLabels(valid, execute_in_fhe, q, r) ==
    Returns("predict", valid, execute_in_fhe, FALSE, q, r, r.scores, r.proba, r.y)

CallDecisionFunction(valid, execute_in_fhe) ==
    /\ ClfReady
    /\ \E q \in GraphOutputs(clf_module, valid) :
          ReturnsScores(valid, execute_in_fhe, q,
                        DecisionFunction(clf_module, valid, execute_in_fhe, q))
    /\ UNCHANGED fitVars

CallPredictProba(valid, execute_in_fhe) ==
    /\ ClfReady
    /\ \E q \in GraphOutputs(clf_module, valid) :
          ReturnsProba("predict_proba", valid, execute_in_fhe, FALSE, q,
                       PredictProba(clf_module, valid, execute_in_fhe, q))
    /\ UNCHANGED fitVars

CallPredict(valid, execute_in_fhe) ==
    /\ ClfReady
    /\ \E q \in GraphOutputs(clf_module, valid) :
          ReturnsLabels(valid, execute_in_fhe, q,
                        Predict(clf_module, valid, execute_in_fhe, q))
    /\ UNCHANGED fitVars

CallPostProcessing(width, already_dequantized) ==
    /\ ClfReady
    /\ \E y \in Rows1(IF already_dequantized THEN ScoreValues ELSE QuantizedValues,
                      width) :
          ReturnsProba("post_processing", TRUE, FALSE, already_dequantized, y,
                       PostProcessing(clf_module, y, already_dequantized))
    /\ UNCHANGED fitVars

\* The caller takes the result or the error of the call; the model is ready
\* for the next call.
ReturnToCaller ==
    /\ ~ClfReady
    /\ clf_calls' = <<>>
    /\ clf_last' = [op |-> "returned", outcome |-> "ok", valid |-> TRUE, fhe |-> FALSE,
                    flag |-> FALSE, input |-> <<>>, scores |-> <<>>,
                    proba |-> <<>>, labels |-> <<>>]
    /\ UNCHANGED clf_module
    /\ UNCHANGED fitVars

\* LogisticRegression.__init__: no artifact yet.
ClfInit ==
    /\ clf_module = None
    /\ clf_calls = <<>>
    /\ clf_last = [op |-> "init", outcome |-> "ok", valid |-> TRUE, fhe |-> FALSE,
                   flag |-> FALSE, input |-> <<>>, scores |-> <<>>,
                   proba |-> <<>>, labels |-> <<>>]

ClfNext ==
    \/ \E scale \in Scales, zero_point \in ZeroPoints, n_out \in 1..MaxClasses :
          ClfFit(scale, zero_point, n_out)
    \/ \E valid \in BOOLEAN, fhe \in BOOLEAN : CallDecisionFunction(valid, fhe)
    \/ \E valid \in BOOLEAN, fhe \in BOOLEAN : CallPredictProba(valid, fhe)
    \/ \E valid \in BOOLEAN, fhe \in BOOLEAN : CallPredict(valid, fhe)
    \/ \E width \in 1..MaxClasses, flag \in BOOLEAN : CallPostProcessing(width, flag)
    \/ ReturnToCaller

(***************************************************************************)
(* The specifications: the regressor's fit, and the classifier's           *)
(* prediction path, each with the other model left as constructed.         *)
(***************************************************************************)
Init == FitInit /\ ClfInit

SpecFit == Init /\ [][FitNext]_vars

ClfSpecInit ==
    /\ heap = <<[shape |-> <<NumSamples, 1>>, data |-> 0]>>
    /\ cfg = LinearRegressionInit(2, FALSE, TRUE)
    /\ sklearn_model = None
    /\ onnx_model = None
    /\ quantized_module = None
    /\ calls = <<>>
    /\ lastOp = [kind |-> "init", outcome |-> "ok", msg |-> <<>>, ret |-> "none",
                 input_shape |-> 0, target_number |-> 0, valid |-> TRUE]
    /\ nops = 0
    /\ ClfInit

SpecClf == ClfSpecInit /\ [][ClfNext]_vars

(***************************************************************************)
(* Properties of the classifier's prediction path.                         *)
(***************************************************************************)
PredictOps == {"decision_function", "predict_proba", "predict"}
ProbaOps == {"post_processing", "predict_proba", "predict"}

Count(seq, c) == Cardinality({i \in 1..Len(seq) : seq[i] = c})
Last(seq) == seq[Len(seq)]

ProbaDone == clf_last.op \in ProbaOps /\ clf_last.outcome = "ok"
BinaryDone == ProbaDone /\ Len(clf_last.scores[1]) = 1
MultiClassDone == ProbaDone /\ Len(clf_last.scores[1]) >= 2

Sigmoid(s) == FDiv(Fin(One), FAdd(Fin(One), FExp(FNeg(s))))

\* C2, as stated: in the binary case the returned pair is (1 - p, p) with
\* p = 1 / (1 + exp(-s)) for the score s, so a score of 0 gives (0.5, 0.5).
C2_BinarySigmoidPair ==
    BinaryDone =>
        LET p == Sigmoid(clf_last.scores[1][1])
        IN clf_last.proba[1] = <<FSub(Fin(One), p), p>>

\* C2, amended: in the binary case post_processing applies no logistic
\* function: for the single value v of the sample (dequantized, taken to be
\* the probability the graph's sigmoid produced) the returned pair is
\* (1 - v, v), whose entries sum to 1; v = 0.5 gives (0.5, 0.5) and a score of
\* 0 gives (1, 0).
C2_BinaryPair ==
    BinaryDone =>
        LET v == clf_last.scores[1][1]
            pair == clf_last.proba[1]
        IN /\ v.k = "fin"
           /\ pair = <<Fin(One - v.v), Fin(v.v)>>
           /\ pair[1].v + pair[2].v = One
           /\ v.v = One \div 2 => pair = <<Fin(One \div 2), Fin(One \div 2)>>
           /\ v.v = 0 => pair = <<Fin(One), Fin(0)>>

C2_Witness ==
    /\ BinaryDone
    /\ clf_last.op = "predict_proba"
    /\ clf_last.scores[1][1] = Fin(0)
    /\ clf_last.proba[1] = <<Fin(One), Fin(0)>>

\* C3: in the multi-class case every entry of the returned row is
\* exp(score_i) over the sum of the row's exp(score_j), every entry is a
\* number >= 0, the row sums to 1 within the rounding of one unit per entry,
\* and equal scores give equal entries of 1 / k.
C3_SoftmaxRowsSumToOne ==
    MultiClassDone =>
        LET row == clf_last.scores[1]
            out == clf_last.proba[1]
            k == Len(row)
            e == [j \in 1..k |-> FExp(row[j])]
            total == FSum(out)
        IN /\ Len(out) = k
           /\ \A j \in 1..k : out[j] = FDiv(e[j], FSum(e))
           /\ \A j \in 1..k : out[j].k = "fin" /\ out[j].v >= 0
           /\ total.k = "fin" /\ Abs(total.v - One) <= k
           /\ (\A j \in 1..k : row[j] = row[1])
                 => \A j \in 1..k : out[j] = Fin(One \div k)

(***************************************************************************)
(* The order numpy.argmax sees: nan above every number.                    *)
(***************************************************************************)
Rank(a) ==
    IF a.k = "nan" THEN FloatMax + 2
    ELSE IF a.k = "inf" THEN a.v * (FloatMax + 1)
    ELSE a.v

\* C4: predict returns, per sample, the index of the first maximum of the
\* predict_proba row (nan ranking as numpy ranks it, above every number): no
\* entry is larger and every earlier entry is smaller, so of equal maxima the
\* lowest class wins; class 0 for a binary score of 0 and for equal scores.
C4_ArgmaxFirstMaximum ==
    (clf_last.op = "predict" /\ clf_last.outcome = "ok") =>
        LET row == clf_last.proba[1]
            r == clf_last.labels[1] + 1
        IN /\ Len(clf_last.labels) = Len(clf_last.proba)
           /\ r \in 1..Len(row)
           /\ \A j \in 1..Len(row) : Rank(row[j]) <= Rank(row[r])
           /\ \A j \in 1..(r - 1) : Rank(row[j]) < Rank(row[r])
           /\ clf_last.scores[1] = <<Fin(0)>> => r = 1
           /\ (/\ Len(clf_last.scores[1]) >= 2
               /\ \A j \in 1..Len(clf_last.scores[1]) :
                     clf_last.scores[1][j] = clf_last.scores[1][1])
                 => r = 1

C4_Witness ==
    /\ clf_last.op = "predict"
    /\ clf_last.outcome = "ok"
    /\ clf_last.scores[1] = <<Fin(One), Fin(One), Fin(One)>>
    /\ clf_last.proba[1][1] = clf_last.proba[1][3]
    /\ clf_last.proba[1][1].k = "fin"
    /\ clf_last.labels = <<0>>

NoResult ==
    /\ clf_last.scores = <<>>
    /\ clf_last.proba = <<>>
    /\ clf_last.labels = <<>>

\* C7, as stated: a predict-path call on a model without artifact fails with
\* the unfitted-model error, fits nothing and returns nothing.
C7_UnfittedModelError ==
    [][(clf_last'.op \in PredictOps /\ clf_module = None)
          => /\ clf_last'.outcome = "UnfittedModelError"
             /\ clf_module' = None
             /\ ~Contains(clf_calls', "fit")
             /\ NoResult']_vars

\* C7, amended: a predict-path call on a model without artifact fails, fits
\* nothing and returns nothing; it fails with the unfitted-model error,
\* except that predict_proba and predict validate the samples first and fail
\* with the validator's error on malformed samples.
C7_UnfittedCallFails ==
    [][(clf_last'.op \in PredictOps /\ clf_module = None)
          => /\ clf_last'.outcome
                   = (IF ~clf_last'.valid /\ clf_last'.op # "decision_function"
                      THEN "ValidationError"
                      ELSE "UnfittedModelError")
             /\ clf_module' = None
             /\ ~Contains(clf_calls', "fit")
             /\ NoResult']_vars

C7_Witness ==
    /\ clf_module = None
    /\ clf_last.op = "predict"
    /\ clf_last.valid
    /\ clf_last.outcome = "UnfittedModelError"
    /\ Contains(clf_calls, "decision_function")

\* C8: the scores are dequantized exactly once on every prediction path.
\* predict_proba validates, calls decision_function, whose output is
\* dequantized, and ends with post_processing, which then dequantizes nothing;
\* post_processing told the scores are still quantized dequantizes once
\* before it normalizes, and told otherwise not at all.
C8_DequantizedOnce ==
    /\ Count(clf_calls, "dequantize") <= 1
    /\ (clf_last.op = "decision_function" /\ clf_last.outcome = "ok")
          => /\ Count(clf_calls, "dequantize") = 1
             /\ clf_last.scores = Dequantize(clf_module, clf_last.input)
    /\ (clf_last.op \in {"predict_proba", "predict"} /\ clf_last.outcome = "ok")
          => /\ Count(clf_calls, "dequantize") = 1
             /\ Count(clf_calls, "post_processing") = 1
             /\ \E i, j, k \in 1..Len(clf_calls) :
                   /\ i < j /\ j < k /\ k = Len(clf_calls)
                   /\ clf_calls[i] = "check_array"
                   /\ clf_calls[j] = "decision_function"
                   /\ clf_calls[k] = "post_processing"
             /\ clf_last.scores = Dequantize(clf_module, clf_last.input)
             /\ clf_last.proba = Normalize(clf_last.scores)
    /\ (clf_last.op = "post_processing" /\ clf_last.outcome = "ok")
          => IF clf_last.flag
             THEN /\ Count(clf_calls, "dequantize") = 0
                  /\ clf_last.proba = Normalize(clf_last.input)
             ELSE /\ Count(clf_calls, "dequantize") = 1
                  /\ Last(clf_calls) = "dequantize"
                  /\ clf_last.proba
                        = Normalize(Dequantize(clf_module, clf_last.input))

C8_Witness ==
    /\ clf_last.op = "predict_proba"
    /\ clf_last.outcome = "ok"
    /\ clf_last.fhe
    /\ Len(clf_last.scores[1]) = 3
    /\ Count(clf_calls, "dequantize") = 1
    /\ Last(clf_calls) = "post_processing"

=============================================================================
